---------------------------- MODULE Spec2Model ----------------------------
(***************************************************************************)
(* A model of the go-quote library (src/quote.go): the Quote record, its   *)
(* constructors and parsers, its text encoders, the package logger and the *)
(* sequential batch driver; and of the command line program                *)
(* (src/quote/main.go): checkFlags, getPeriod, setOutput and outputAll.    *)
(*                                                                         *)
(* Texts are TLA+ strings, handled one character at a time with Len,       *)
(* SubSeq and \o, so that parsing and formatting are computed and not      *)
(* assumed.  A float64 is modelled by its value in hundredths (an integer  *)
(* number of cents): every number the model feeds to the program has at    *)
(* most two decimals, so "%.2f" and "%.8f" print it exactly.  A time.Time  *)
(* is a record [year, month, day, hour, min] in UTC.                       *)
(***************************************************************************)
EXTENDS Integers, Sequences, FiniteSets, TLC

VARIABLES
    pc,        \* where the calling program is: "idle", "quote", "quotes", ...
    args,      \* the arguments of the library call that was made
    q,         \* the Quote a constructor returned
    qs,        \* the Quotes a constructor or the batch driver returned
    err,       \* the error value returned ("nil" when none)
    out,       \* the text an encoder returned
    enc,       \* the encoder that was called ("" before any)
    panicked,  \* TRUE when the call ended in a run-time panic
    batch,     \* the batch driver's loop state
    logger     \* the package logger Log: its output and what was logged

vars == <<pc, args, q, qs, err, out, enc, panicked, batch, logger>>

---------------------------------------------------------------------------
(* Bounds of the model.                                                    *)

\* most data rows in a CSV text handed to a parser
MaxRows == 2
\* most bars asked of NewQuote directly
MaxBars == 2
\* most symbols handed to a batch driver
MaxSyms == 2

---------------------------------------------------------------------------
(* strings, strconv and fmt as the program uses them.                      *)

Char(s, i) == SubSeq(s, i, i)

Digits == {"0", "1", "2", "3", "4", "5", "6", "7", "8", "9"}

IsDigits(s) == Len(s) > 0 /\ \A i \in 1..Len(s) : Char(s, i) \in Digits

DigitVal(c) == CHOOSE d \in 0..9 : ToString(d) = c

RECURSIVE Atoi(_)
Atoi(s) ==
    IF s = "" THEN 0
    ELSE Atoi(SubSeq(s, 1, Len(s) - 1)) * 10 + DigitVal(Char(s, Len(s)))

\* strings.Index for a one-character separator: 0 when absent
IndexOf(s, c) ==
    IF \E i \in 1..Len(s) : Char(s, i) = c
    THEN CHOOSE i \in 1..Len(s) : Char(s, i) = c /\ \A j \in 1..(i - 1) : Char(s, j) # c
    ELSE 0

\* strings.Split(s, sep) for a one-character sep: always at least one piece
RECURSIVE Split(_, _)
Split(s, sep) ==
    LET i == IndexOf(s, sep) IN
    IF i = 0 THEN <<s>>
    ELSE <<SubSeq(s, 1, i - 1)>> \o Split(SubSeq(s, i + 1, Len(s)), sep)

\* strings.Contains
Contains(s, sub) ==
    \E i \in 1..(Len(s) - Len(sub) + 1) : SubSeq(s, i, i + Len(sub) - 1) = sub

LowerLetters == "abcdefghijklmnopqrstuvwxyz"
UpperLetters == "ABCDEFGHIJKLMNOPQRSTUVWXYZ"

UpperChar(c) ==
    LET i == IndexOf(LowerLetters, c) IN
    IF i = 0 THEN c ELSE Char(UpperLetters, i)

\* strings.ToUpper on ASCII text
RECURSIVE ToUpper(_)
ToUpper(s) ==
    IF s = "" THEN "" ELSE UpperChar(Char(s, 1)) \o ToUpper(SubSeq(s, 2, Len(s)))

\* strings.TrimSpace
RECURSIVE TrimSpace(_)
TrimSpace(s) ==
    IF s = "" THEN ""
    ELSE IF Char(s, 1) = " " THEN TrimSpace(SubSeq(s, 2, Len(s)))
    ELSE IF Char(s, Len(s)) = " " THEN TrimSpace(SubSeq(s, 1, Len(s) - 1))
    ELSE s

RECURSIVE Zeros(_)
Zeros(n) == IF n <= 0 THEN "" ELSE "0" \o Zeros(n - 1)

\* an integer printed in at least w digits ("%02d")
Pad(n, w) == Zeros(w - Len(ToString(n))) \o ToString(n)

\* strconv.ParseFloat(s, 64) with the error dropped (v, _ := ...): the value
\* in hundredths, 0 when s is no decimal number.  Digits beyond the second
\* decimal are zeros in every text of the model, and no text of the model
\* holds a sign or an exponent.
ParseFloat(s) ==
    LET dot  == IndexOf(s, ".")
        ip   == IF dot = 0 THEN s ELSE SubSeq(s, 1, dot - 1)
        fp   == IF dot = 0 THEN "" ELSE SubSeq(s, dot + 1, Len(s))
        fp2  == SubSeq(fp \o "00", 1, 2)
    IN  IF \/ IsDigits(ip) /\ (fp = "" \/ IsDigits(fp))
           \/ ip = "" /\ IsDigits(fp)
        THEN Atoi(ip) * 100 + Atoi(fp2)
        ELSE 0

\* fmt's "%.*f" of a value in hundredths, for a precision of two or more
FormatFloat(precision, x) ==
    ToString(x \div 100) \o "." \o Pad(x % 100, 2) \o Zeros(precision - 2)

---------------------------------------------------------------------------
(* time.Time: Parse, Format and UnixNano as the program uses them.         *)

\* the zero time.Time, which time.Parse returns with its error
ZeroTime == [year |-> 1, month |-> 1, day |-> 1, hour |-> 0, min |-> 0]

IsLeap(y) == (y % 4 = 0 /\ y % 100 # 0) \/ y % 400 = 0

DaysIn(y, m) ==
    IF m = 2 THEN (IF IsLeap(y) THEN 29 ELSE 28)
    ELSE IF m \in {4, 6, 9, 11} THEN 30 ELSE 31

\* the date of a "2006-01-02" text, ZeroTime when it is none
ParseDate(s) ==
    IF /\ Len(s) = 10
       /\ Char(s, 5) = "-" /\ Char(s, 8) = "-"
       /\ IsDigits(SubSeq(s, 1, 4)) /\ IsDigits(SubSeq(s, 6, 7)) /\ IsDigits(SubSeq(s, 9, 10))
    THEN LET y == Atoi(SubSeq(s, 1, 4))
             m == Atoi(SubSeq(s, 6, 7))
             d == Atoi(SubSeq(s, 9, 10))
         IN  IF m \in 1..12 /\ d >= 1 /\ d <= DaysIn(y, m)
             THEN [year |-> y, month |-> m, day |-> d, hour |-> 0, min |-> 0]
             ELSE ZeroTime
    ELSE ZeroTime

\* the hour and minute of a "15:04" text, <<-1, -1>> when it is none
ParseClock(s) ==
    IF /\ Len(s) = 5 /\ Char(s, 3) = ":"
       /\ IsDigits(SubSeq(s, 1, 2)) /\ IsDigits(SubSeq(s, 4, 5))
       /\ Atoi(SubSeq(s, 1, 2)) < 24 /\ Atoi(SubSeq(s, 4, 5)) < 60
    THEN <<Atoi(SubSeq(s, 1, 2)), Atoi(SubSeq(s, 4, 5))>>
    ELSE <<-1, -1>>

LayoutMinute == "2006-01-02 15:04"
LayoutDay == "2006-01-02"

\* t, _ := time.Parse(layout, s) for the two layouts the program passes
ParseTime(layout, s) ==
    IF layout = LayoutDay THEN ParseDate(s)
    ELSE IF layout = LayoutMinute /\ Len(s) = 16 /\ Char(s, 11) = " "
    THEN LET d == ParseDate(SubSeq(s, 1, 10))
             c == ParseClock(SubSeq(s, 12, 16))
         IN  IF d = ZeroTime \/ c[1] < 0 THEN ZeroTime
             ELSE [d EXCEPT !.hour = c[1], !.min = c[2]]
    ELSE ZeroTime

\* t.Format(layout) for the layouts the program passes
FormatTime(t, layout) ==
    LET date  == Pad(t.year, 4) \o "-" \o Pad(t.month, 2) \o "-" \o Pad(t.day, 2)
        clock == Pad(t.hour, 2) \o ":" \o Pad(t.min, 2)
    IN  IF layout = LayoutMinute THEN date \o " " \o clock
        ELSE IF layout = LayoutDay THEN date
        ELSE IF layout = "15:04" THEN clock
        ELSE Pad(t.year, 4) \o "-" \o ToString(t.month) \o "-" \o ToString(t.day)

\* days from 1970-01-01 to the date of t (a date of 1970 or later)
UnixDays(t) ==
    LET y   == IF t.month <= 2 THEN t.year - 1 ELSE t.year
        era == y \div 400
        yoe == y - era * 400
        mp  == IF t.month > 2 THEN t.month - 3 ELSE t.month + 9
        doy == (153 * mp + 2) \div 5 + t.day - 1
        doe == yoe * 365 + yoe \div 4 - yoe \div 100 + doy
    IN  era * 146097 + doe - 719468

\* the "%d" of t.UnixNano()/1000000: the seconds followed by three zeros;
\* the zero time is out of int64 nanosecond range and wraps to a fixed value
UnixMilli(t) ==
    IF t = ZeroTime THEN "-6795364578871"
    ELSE ToString(UnixDays(t) * 86400 + t.hour * 3600 + t.min * 60) \o "000"

---------------------------------------------------------------------------
(* The package logger Log.  dest names its output, handle tells whether    *)
(* the output can be written ("open"), is a closed file ("closed") or a    *)
(* nil *os.File ("nil"); logged are the messages handed to Log.Printf and  *)
(* written those that reached the output.                                  *)

\* init(): Log = log.New(ioutil.Discard, ...)
DiscardLogger ==
    [dest |-> "discard", handle |-> "open", logged |-> <<>>, written |-> <<>>]

\* Log.Printf of msgs in turn: one Write on the output for each.  Discard
\* keeps nothing; the Write of a closed or nil *os.File returns an error,
\* which Printf drops
LogPrintf(l, msgs) ==
    [l EXCEPT !.logged = @ \o msgs,
              !.written = IF l.handle = "open" /\ l.dest # "discard" THEN @ \o msgs ELSE @]

---------------------------------------------------------------------------
(* The Quote record.                                                       *)

\* make([]T, bars): bars zero values
Make(bars, zero) == [i \in 1..bars |-> zero]

NewQuote(symbol, bars) ==
    [Symbol    |-> symbol,
     Precision |-> 0,
     Date      |-> Make(bars, ZeroTime),
     Open      |-> Make(bars, 0),
     High      |-> Make(bars, 0),
     Low       |-> Make(bars, 0),
     Close     |-> Make(bars, 0),
     Volume    |-> Make(bars, 0)]

\* getPrecision without the ToUpper: a symbol in lower or mixed case is missed
getPrecision_CaseSensitive(symbol) ==
    IF \/ Contains(symbol, "BTC")
       \/ Contains(symbol, "ETH")
       \/ Contains(symbol, "USD")
    THEN 8 ELSE 2

getPrecision(symbol) ==
    IF \/ Contains(ToUpper(symbol), "BTC")
       \/ Contains(ToUpper(symbol), "ETH")
       \/ Contains(ToUpper(symbol), "USD")
    THEN 8 ELSE 2


---------------------------------------------------------------------------
(* The encoders.  Each walks "for bar := range q.Close" and indexes the    *)
(* other five sequences with bar: a shorter one is an index out of range,  *)
(* a run-time panic.                                                       *)

RECURSIVE Join(_)
Join(ss) == IF Len(ss) = 0 THEN "" ELSE Head(ss) \o Join(Tail(ss))

\* whether every index of Close is an index of the other five sequences
CanIndex(quote) ==
    /\ Len(quote.Date) >= Len(quote.Close)
    /\ Len(quote.Open) >= Len(quote.Close)
    /\ Len(quote.High) >= Len(quote.Close)
    /\ Len(quote.Low) >= Len(quote.Close)
    /\ Len(quote.Volume) >= Len(quote.Close)

\* the five "%.*f" fields of one bar, comma-separated
FiveFloats(quote, bar, precision) ==
    FormatFloat(precision, quote.Open[bar]) \o "," \o
    FormatFloat(precision, quote.High[bar]) \o "," \o
    FormatFloat(precision, quote.Low[bar]) \o "," \o
    FormatFloat(precision, quote.Close[bar]) \o "," \o
    FormatFloat(precision, quote.Volume[bar])

\* Quote.CSV
QuoteCSV(quote) ==
    LET precision == getPrecision(quote.Symbol) IN
    "datetime,open,high,low,close,volume\n" \o
    Join([bar \in 1..Len(quote.Close) |->
            FormatTime(quote.Date[bar], LayoutMinute) \o "," \o
            FiveFloats(quote, bar, precision) \o "\n"])

\* one "[%d,%.*f,%.*f,%.*f,%.*f,%.*f]%s\n" row of the Highstock layout
HighstockRow(quote, bar, precision) ==
    LET comma == IF bar = Len(quote.Close) THEN "" ELSE "," IN
    "[" \o UnixMilli(quote.Date[bar]) \o "," \o
    FiveFloats(quote, bar, precision) \o "]" \o comma \o "\n"

\* Quote.Highstock
QuoteHighstock(quote) ==
    LET precision == getPrecision(quote.Symbol) IN
    "[\n" \o
    Join([bar \in 1..Len(quote.Close) |-> HighstockRow(quote, bar, precision)]) \o
    "]\n"

\* Quote.Amibroker
QuoteAmibroker(quote) ==
    LET precision == getPrecision(quote.Symbol) IN
    "date,time,open,high,low,close,volume\n" \o
    Join([bar \in 1..Len(quote.Close) |->
            FormatTime(quote.Date[bar], LayoutDay) \o "," \o
            FormatTime(quote.Date[bar], "15:04") \o "," \o
            FiveFloats(quote, bar, precision) \o "\n"])

\* Quotes.CSV
QuotesCSV(quotes) ==
    "symbol,datetime,open,high,low,close,volume\n" \o
    Join([sym \in 1..Len(quotes) |->
        LET quote     == quotes[sym]
            precision == getPrecision(quote.Symbol)
        IN  Join([bar \in 1..Len(quote.Close) |->
                quote.Symbol \o "," \o
                FormatTime(quote.Date[bar], LayoutMinute) \o "," \o
                FiveFloats(quote, bar, precision) \o "\n"])])

\* Quotes.Highstock: the opening "symbol":[ is written inside the loop over
\* the bars, at bar 0; the closing bracket after the loop, for every quote
QuotesHighstock(quotes) ==
    "{" \o
    Join([sym \in 1..Len(quotes) |->
        LET quote     == quotes[sym]
            precision == getPrecision(quote.Symbol)
        IN  Join([bar \in 1..Len(quote.Close) |->
                (IF bar = 1 THEN "\"" \o quote.Symbol \o "\":[\n" ELSE "") \o
                HighstockRow(quote, bar, precision)]) \o
            (IF sym < Len(quotes) THEN "],\n" ELSE "]\n")]) \o
    "}"

\* Quotes.Amibroker
QuotesAmibroker(quotes) ==
    "symbol,date,time,open,high,low,close,volume\n" \o
    Join([sym \in 1..Len(quotes) |->
        LET quote     == quotes[sym]
            precision == getPrecision(quote.Symbol)
        IN  Join([bar \in 1..Len(quote.Close) |->
                quote.Symbol \o "," \o
                FormatTime(quote.Date[bar], LayoutDay) \o "," \o
                FormatTime(quote.Date[bar], "15:04") \o "," \o
                FiveFloats(quote, bar, precision) \o "\n"])])

---------------------------------------------------------------------------
(* Quote.JSON and Quotes.JSON: json.Marshal or json.MarshalIndent of the   *)
(* record.  Precision is tagged json:"-" and left out.  A nil slice prints *)
(* null, an empty one [].                                                  *)

RECURSIVE JoinWith(_, _)
JoinWith(ss, sep) ==
    IF Len(ss) = 0 THEN ""
    ELSE IF Len(ss) = 1 THEN Head(ss)
    ELSE Head(ss) \o sep \o JoinWith(Tail(ss), sep)

\* the prefix of a line at the given depth, for MarshalIndent(v, "", "  ")
RECURSIVE Indent(_)
Indent(depth) == IF depth <= 0 THEN "" ELSE "  " \o Indent(depth - 1)

\* a float64 as encoding/json prints it: the shortest decimal that reads
\* back as the same value, without an exponent for the sizes of the model
JsonFloat(x) ==
    LET ip == ToString(x \div 100)
        fp == x % 100
    IN  IF fp = 0 THEN ip
        ELSE IF fp % 10 = 0 THEN ip \o "." \o ToString(fp \div 10)
        ELSE ip \o "." \o Pad(fp, 2)

\* time.Time's MarshalJSON: a quoted RFC 3339 text, in UTC
JsonTime(t) ==
    "\"" \o Pad(t.year, 4) \o "-" \o Pad(t.month, 2) \o "-" \o Pad(t.day, 2) \o "T" \o
    Pad(t.hour, 2) \o ":" \o Pad(t.min, 2) \o ":00Z\""

\* an array of printed items
JsonArray(items, indent, depth) ==
    IF Len(items) = 0 THEN "[]"
    ELSE IF indent
    THEN "[\n" \o
         JoinWith([i \in 1..Len(items) |-> Indent(depth + 1) \o items[i]], ",\n") \o
         "\n" \o Indent(depth) \o "]"
    ELSE "[" \o JoinWith(items, ",") \o "]"

\* one Quote as a JSON object; nils are the keys whose slice is nil
JsonQuote(quote, nils, indent, depth) ==
    LET floats(key, seq) ==
            IF key \in nils THEN "null"
            ELSE JsonArray([i \in 1..Len(seq) |-> JsonFloat(seq[i])], indent, depth + 1)
        dates ==
            IF "date" \in nils THEN "null"
            ELSE JsonArray([i \in 1..Len(quote.Date) |-> JsonTime(quote.Date[i])],
                           indent, depth + 1)
        colon == IF indent THEN "\": " ELSE "\":"
        member(key, value) ==
            (IF indent THEN Indent(depth + 1) ELSE "") \o "\"" \o key \o colon \o value
        members ==
            << member("symbol", "\"" \o quote.Symbol \o "\""),
               member("date", dates),
               member("open", floats("open", quote.Open)),
               member("high", floats("high", quote.High)),
               member("low", floats("low", quote.Low)),
               member("close", floats("close", quote.Close)),
               member("volume", floats("volume", quote.Volume)) >>
    IN  IF indent
        THEN "{\n" \o JoinWith(members, ",\n") \o "\n" \o Indent(depth) \o "}"
        ELSE "{" \o JoinWith(members, ",") \o "}"

\* Quote.JSON
QuoteJSON(quote, nils, indent) == JsonQuote(quote, nils, indent, 0)

\* Quotes.JSON: every Quote of a Quotes was built by NewQuote, none is nil
QuotesJSON(quotes, indent) ==
    JsonArray([sym \in 1..Len(quotes) |-> JsonQuote(quotes[sym], {}, indent, 1)],
              indent, 0)

---------------------------------------------------------------------------
(* The CSV parsers.                                                        *)

\* the first row of tmp (rows counted from 0, row 0 the header) that does
\* not hold six fields, where NewQuoteFromCSV's loop breaks; Len(tmp) if none
BreakRow(tmp) ==
    LET bad == {row \in 1..(Len(tmp) - 1) : Len(Split(tmp[row + 1], ",")) # 6} IN
    IF bad = {} THEN Len(tmp)
    ELSE CHOOSE row \in bad : \A r \in bad : row <= r

\* the loop "for row, bar := 1, 0; row < numrows; ..." run up to row stop:
\* bar row-1 of quote takes the six parsed fields of line tmp[row], and the
\* bars from stop on keep their zero values
FillFromCSV(quote, tmp, stop, layout) ==
    LET line(bar) == Split(tmp[bar + 1], ",")
        filled(bar) == bar < stop
        col(zero, f(_)) ==
            [bar \in 1..Len(quote.Close) |-> IF filled(bar) THEN f(bar) ELSE zero]
        date(bar) == ParseTime(layout, line(bar)[1])
        open(bar) == ParseFloat(line(bar)[2])
        high(bar) == ParseFloat(line(bar)[3])
        low(bar) == ParseFloat(line(bar)[4])
        close(bar) == ParseFloat(line(bar)[5])
        volume(bar) == ParseFloat(line(bar)[6])
    IN  [quote EXCEPT !.Date = col(ZeroTime, date),
                      !.Open = col(0, open),
                      !.High = col(0, high),
                      !.Low = col(0, low),
                      !.Close = col(0, close),
                      !.Volume = col(0, volume)]

\* NewQuoteFromCSV allocating a bar for the header line too
NewQuoteFromCSV_CountsHeader(symbol, csv) ==
    LET tmp     == Split(csv, "\n")
        numrows == Len(tmp)
    IN  FillFromCSV(NewQuote(symbol, numrows), tmp, BreakRow(tmp), LayoutMinute)

\* NewQuoteFromCSV: the quote returned (the error is always nil)
NewQuoteFromCSV(symbol, csv) ==
    LET tmp     == Split(csv, "\n")
        numrows == Len(tmp)
    IN  FillFromCSV(NewQuote(symbol, numrows - 1), tmp, BreakRow(tmp), LayoutMinute)

\* NewQuoteFromCSVDateFormat: it builds NewQuote("", ...), has no check of
\* the number of fields, and so panics on a line of fewer than six
NewQuoteFromCSVDateFormat(symbol, csv, format) ==
    LET tmp     == Split(csv, "\n")
        numrows == Len(tmp)
        layout  == IF Len(TrimSpace(format)) = 0 THEN LayoutMinute ELSE format
        short   == \E row \in 1..(numrows - 1) : Len(Split(tmp[row + 1], ",")) < 6
    IN  IF short THEN [panic |-> TRUE, q |-> NewQuote("", 0)]
        ELSE [panic |-> FALSE,
              q |-> FillFromCSV(NewQuote("", numrows - 1), tmp, numrows, layout)]


\* the orders in which "for sym, len := range index" may visit the keys
Orders(keys) ==
    {o \in [1..Cardinality(keys) -> keys] : \A i, j \in DOMAIN o : o[i] = o[j] => i = j}

\* NewQuotesFromCSV, the map index visited in the given order: the rows are
\* consumed from row 1 on by a running counter, len rows for each symbol
NewQuotesFromCSV(csv, order) ==
    LET tmp     == Split(csv, "\n")
        numrows == Len(tmp)
        symOf(idx) == Split(tmp[idx + 1], ",")[1]
        index   == [sym \in {symOf(idx) : idx \in 1..(numrows - 1)} |->
                        Cardinality({idx \in 1..(numrows - 1) : symOf(idx) = sym})]
        \* the value of row when the k-th symbol of the order is reached
        first[k \in 1..Len(order)] == IF k = 1 THEN 1 ELSE first[k - 1] + index[order[k - 1]]
        line(k, bar) == Split(tmp[first[k] + bar], ",")
        short   == \E idx \in 1..(numrows - 1) : Len(Split(tmp[idx + 1], ",")) < 7
        col(k, f(_)) == [bar \in 1..index[order[k]] |-> f(line(k, bar))]
        date(l) == ParseTime(LayoutMinute, l[2])
        open(l) == ParseFloat(l[3])
        high(l) == ParseFloat(l[4])
        low(l) == ParseFloat(l[5])
        close(l) == ParseFloat(l[6])
        volume(l) == ParseFloat(l[7])
    IN  IF short THEN [panic |-> TRUE, quotes |-> <<>>]
        ELSE [panic |-> FALSE,
              quotes |-> [k \in 1..Len(order) |->
                  [NewQuote(order[k], index[order[k]]) EXCEPT
                      !.Date = col(k, date), !.Open = col(k, open),
                      !.High = col(k, high), !.Low = col(k, low),
                      !.Close = col(k, close), !.Volume = col(k, volume)]]]

\* the keys of the map index that NewQuotesFromCSV builds from csv
IndexKeys(csv) ==
    LET tmp == Split(csv, "\n") IN
    {Split(tmp[idx + 1], ",")[1] : idx \in 1..(Len(tmp) - 1)}

---------------------------------------------------------------------------
(* NewQuoteFromJSON.  The JSON text is modelled decoded: doc.valid tells   *)
(* whether it is well-formed JSON of the right shape, doc.has which of the *)
(* keys it holds, and doc[key] the value of each.  json.Unmarshal sets the *)
(* fields whose keys are present and leaves the others at their zero       *)
(* value; Precision is tagged json:"-" and never set.                      *)

NewQuoteFromJSON(doc) ==
    LET field(key, zero) == IF key \in doc.has THEN doc[key] ELSE zero IN
    IF ~doc.valid THEN [q |-> NewQuote("", 0), err |-> "json: syntax error"]
    ELSE [q |-> [Symbol    |-> field("symbol", ""),
                 Precision |-> 0,
                 Date      |-> field("date", <<>>),
                 Open      |-> field("open", <<>>),
                 High      |-> field("high", <<>>),
                 Low       |-> field("low", <<>>),
                 Close     |-> field("close", <<>>),
                 Volume    |-> field("volume", <<>>)],
          err |-> "nil"]

---------------------------------------------------------------------------
(* Period.                                                                 *)

Min1 == "60"
Min3 == "3m"
Min5 == "300"
Min15 == "900"
Min30 == "1800"
Min60 == "3600"
Hour2 == "2h"
Hour4 == "4h"
Hour6 == "6h"
Hour8 == "8h"
Hour12 == "12h"
Daily == "d"
Day3 == "3d"
Weekly == "w"
Monthly == "m"

Periods == {Min1, Min3, Min5, Min15, Min30, Min60, Hour2, Hour4, Hour6, Hour8,
            Hour12, Daily, Day3, Weekly, Monthly}

---------------------------------------------------------------------------
(* NewQuoteFromYahoo.  resp is what the network answers: resp.geterr tells *)
(* whether client.Get fails, resp.body is the body otherwise.              *)

\* encoding/csv's ReadAll on a body without quoted fields: empty lines are
\* skipped and every record must hold as many fields as the first
ReadAll(body) ==
    LET lines   == SelectSeq(Split(body, "\n"), LAMBDA l : l # "")
        records == [i \in 1..Len(lines) |-> Split(lines[i], ",")]
    IN  IF \E i \in 1..Len(lines) : Len(records[i]) # Len(records[1])
        THEN [err |-> "wrong number of fields", records |-> <<>>]
        ELSE [err |-> "nil", records |-> records]

\* o * ratio with ratio := c / a, on values in hundredths; the prices of
\* the model are powers of two, for which the float64 result is exact
TimesRatio(o, c, a) == (o * c) \div a

\* the open, high, low and close stored for a row, as <<o, h, l, c>>
AdjustRow(adjustQuote, o, h, l, c, a) ==
    IF adjustQuote THEN <<o, h, l, a>>
    ELSE <<TimesRatio(o, c, a), TimesRatio(h, c, a), TimesRatio(l, c, a), c>>

\* the test of the period with the intraday periods alone turned away
NotDaily_OnlyIntraday(period) == period \in {Min1, Min5, Min15, Min30, Min60}

\* "if period != Daily": the call returns before any request is built
NotDaily(period) == period # Daily

\* requests counts the HTTP requests issued
NewQuoteFromYahoo(symbol, period, adjustQuote, resp) ==
    LET none(e, n, p, msgs) ==
            [q |-> NewQuote("", 0), err |-> e, requests |-> n, panic |-> p, logged |-> msgs]
        data    == ReadAll(resp.body)
        csvdata == data.records
        numrows == Len(csvdata) - 1
        f(row, i) == ParseFloat(csvdata[row + 1][i + 1])
        bar(row) == AdjustRow(adjustQuote, f(row, 1), f(row, 2), f(row, 3), f(row, 4), f(row, 5))
    IN  IF NotDaily(period)
        THEN none("Yahoo intraday data no longer supported", 0, FALSE,
                  <<"Yahoo intraday data no longer supported\n">>)
        ELSE IF resp.geterr
        THEN none("Get: connection failed", 2, FALSE,
                  <<"symbol '" \o symbol \o "' not found\n">>)
        ELSE IF data.err # "nil"
        THEN none(data.err, 2, FALSE, <<"bad data for symbol '" \o symbol \o "'\n">>)
        \* make() of a negative length, or csvdata[row][6] beyond the record
        ELSE IF numrows < 0 \/ (numrows > 0 /\ Len(csvdata[1]) < 7)
        THEN none("nil", 2, TRUE, <<>>)
        ELSE [q |-> [NewQuote(symbol, numrows) EXCEPT
                        !.Date   = [row \in 1..numrows |-> ParseTime(LayoutDay, csvdata[row + 1][1])],
                        !.Open   = [row \in 1..numrows |-> bar(row)[1]],
                        !.High   = [row \in 1..numrows |-> bar(row)[2]],
                        !.Low    = [row \in 1..numrows |-> bar(row)[3]],
                        !.Close  = [row \in 1..numrows |-> bar(row)[4]],
                        !.Volume = [row \in 1..numrows |-> f(row, 6)]],
              err |-> "nil", requests |-> 2, panic |-> FALSE, logged |-> <<>>]

---------------------------------------------------------------------------
(* tiingoDaily.  resp is what the network answers: resp.neterr tells       *)
(* whether client.Do fails, resp.status is the HTTP status, resp.badjson   *)
(* whether the body fails to decode, and resp.rows the decoded elements.   *)

StatusOK == 200
StatusNotFound == 404

tiingoDaily(symbol, resp) ==
    LET none(e, p, msgs) == [q |-> NewQuote("", 0), err |-> e, panic |-> p, logged |-> msgs]
        tiingo  == IF resp.status = StatusOK THEN resp.rows ELSE <<>>
        numrows == Len(tiingo)
    IN  IF resp.neterr
        THEN none("Do: connection failed", FALSE, <<"tiingo error: Do: connection failed\n">>)
        ELSE IF resp.status = StatusOK /\ resp.badjson
        THEN none("json: syntax error", FALSE, <<"tiingo error: json: syntax error\n">>)
        \* the err returned here is the nil that client.Do returned
        ELSE IF resp.status = StatusNotFound
        THEN none("nil", FALSE, <<"symbol '" \o symbol \o "' not found\n">>)
        \* tiingo[bar].Date[0:10] on a shorter string
        ELSE IF \E bar \in 1..numrows : Len(tiingo[bar].Date) < 10
        THEN none("nil", TRUE, <<>>)
        ELSE [q |-> [NewQuote(symbol, numrows) EXCEPT
                        !.Date   = [bar \in 1..numrows |->
                                        ParseTime(LayoutDay, SubSeq(tiingo[bar].Date, 1, 10))],
                        !.Open   = [bar \in 1..numrows |-> tiingo[bar].AdjOpen],
                        !.High   = [bar \in 1..numrows |-> tiingo[bar].AdjHigh],
                        !.Low    = [bar \in 1..numrows |-> tiingo[bar].AdjLow],
                        !.Close  = [bar \in 1..numrows |-> tiingo[bar].AdjClose],
                        !.Volume = [bar \in 1..numrows |-> tiingo[bar].Volume]],
              err |-> "nil", panic |-> FALSE, logged |-> <<>>]

---------------------------------------------------------------------------
(* tiingoCrypto: the resampling frequency and the URL requested.           *)

\* resampleFreq asking for the hour in minutes
resampleFreq_Minutes(period) ==
    CASE period = Min1   -> "1min"
      [] period = Min3   -> "3min"
      [] period = Min5   -> "5min"
      [] period = Min15  -> "15min"
      [] period = Min30  -> "30min"
      [] period = Min60  -> "60min"
      [] period = Hour2  -> "2hour"
      [] period = Hour4  -> "4hour"
      [] period = Hour6  -> "6hour"
      [] period = Hour8  -> "8hour"
      [] period = Hour12 -> "12hour"
      [] OTHER           -> "1day"

resampleFreq(period) ==
    CASE period = Min1   -> "1min"
      [] period = Min3   -> "3min"
      [] period = Min5   -> "5min"
      [] period = Min15  -> "15min"
      [] period = Min30  -> "30min"
      [] period = Min60  -> "1hour"
      [] period = Hour2  -> "2hour"
      [] period = Hour4  -> "4hour"
      [] period = Hour6  -> "6hour"
      [] period = Hour8  -> "8hour"
      [] period = Hour12 -> "12hour"
      [] period = Daily  -> "1day"
      [] OTHER           -> "1day"

\* the URL of the request; url.QueryEscape leaves a "2006-1-2" date as it is
tiingoCryptoURL(symbol, from, to, period) ==
    "https://api.tiingo.com/tiingo/crypto/prices?tickers=" \o symbol \o
    "&startDate=" \o FormatTime(from, "2006-1-2") \o
    "&endDate=" \o FormatTime(to, "2006-1-2") \o
    "&resampleFreq=" \o resampleFreq(period)


---------------------------------------------------------------------------
(* The batch drivers NewQuotesFromYahooSyms and NewQuotesFromYahoo.        *)

\* bufio.ScanLines over a file's text: its lines, without a final empty one
ScanLines(text) ==
    LET lines == Split(text, "\n") IN
    IF lines[Len(lines)] = "" THEN SubSeq(lines, 1, Len(lines) - 1) ELSE lines

\* KeepQuote holding one Quote for all: every element becomes the last fetched
KeepQuote_Shared(quotes, quote, e) ==
    IF e = "nil" THEN [i \in 1..(Len(quotes) + 1) |-> quote] ELSE quotes

\* KeepQuote without the test of err: a failed fetch's empty quote is kept
KeepQuote_Always(quotes, quote, e) == Append(quotes, quote)

\* "if err == nil { quotes = append(quotes, quote) }"
KeepQuote(quotes, quote, e) == IF e = "nil" THEN Append(quotes, quote) ELSE quotes

\* the loop body without its time.Sleep
AfterFetch_NoSleep == "loop"

\* where the loop body goes once the fetch has returned: time.Sleep
AfterFetch == "sleep"

NoBatch ==
    [symbols |-> <<>>, period |-> "", adjust |-> FALSE, i |-> 0, inflight |-> 0,
     made |-> 0, log |-> <<>>, results |-> <<>>]

---------------------------------------------------------------------------
(* The command line program (src/quote/main.go).  flags is the quoteflags  *)
(* record, with the fields the functions below read.                       *)

InvalidSource ==
    "invalid source, must be either 'yahoo', 'tiingo', 'coinbase', 'bittrex', or 'binance'"
InvalidYahoo == "invalid period for yahoo, must be 'd'"
InvalidTiingo == "invalid period for tiingo, must be 'd'"
MissingTiingoToken ==
    "missing token for tiingo, must be passed or TIINGO_API_TOKEN must be set"
InvalidTiingoCrypto ==
    "invalid source for tiingo-crypto, must be '1m', '3m', '5m', '15m', '30m', '1h', '2h', '4h', '6h', '8h', '12h', '1d', '3d', '1w', or '1M'"
MissingTiingoCryptoToken ==
    "missing token for tiingo-crypto, must be passed or TIINGO_API_TOKEN must be set"
InvalidBittrex == "invalid source for bittrex, must be '1m', '5m', '30m', '1h' or 'd'"
InvalidBinance ==
    "invalid source for binance, must be '1m', '3m', '5m', '15m', '30m', '1h', '2h', '4h', '6h', '8h', '12h', '1d', '3d', '1w', or '1M'"

\* checkFlags: the error returned, "nil" when none
checkFlags(flags) ==
    IF flags.source \notin {"yahoo", "tiingo", "tiingo-crypto", "coinbase", "bittrex", "binance"}
    THEN InvalidSource
    ELSE IF flags.source = "yahoo" /\ flags.period \in {"1m", "5m", "15m", "30m", "1h"}
    THEN InvalidYahoo
    ELSE IF flags.source = "tiingo" /\ flags.period # "d"
    THEN InvalidTiingo
    ELSE IF flags.source = "tiingo" /\ flags.token = ""
    THEN MissingTiingoToken
    ELSE IF /\ flags.source = "tiingo-crypto"
            /\ flags.period \notin {"1m", "3m", "5m", "15m", "30m", "1h", "2h", "4h", "6h",
                                    "8h", "12h", "d"}
    THEN InvalidTiingoCrypto
    ELSE IF flags.source = "tiingo-crypto" /\ flags.token = ""
    THEN MissingTiingoCryptoToken
    ELSE IF flags.source = "bittrex" /\ flags.period \notin {"1m", "5m", "30m", "1h", "d"}
    THEN InvalidBittrex
    ELSE IF /\ flags.source = "binance"
            /\ flags.period \notin {"1m", "3m", "5m", "15m", "30m", "1h", "2h", "4h", "6h",
                                    "8h", "12h", "d", "3d", "w", "m"}
    THEN InvalidBinance
    ELSE "nil"

getPeriod(periodFlag) ==
    CASE periodFlag = "1m"  -> Min1
      [] periodFlag = "3m"  -> Min3
      [] periodFlag = "5m"  -> Min5
      [] periodFlag = "15m" -> Min15
      [] periodFlag = "30m" -> Min30
      [] periodFlag = "1h"  -> Min60
      [] periodFlag = "2h"  -> Hour2
      [] periodFlag = "4h"  -> Hour4
      [] periodFlag = "6h"  -> Hour6
      [] periodFlag = "8h"  -> Hour8
      [] periodFlag = "12h" -> Hour12
      [] periodFlag = "d"   -> Daily
      [] periodFlag = "1d"  -> Daily
      [] periodFlag = "3d"  -> Day3
      [] periodFlag = "w"   -> Weekly
      [] periodFlag = "1w"  -> Weekly
      [] periodFlag = "m"   -> Monthly
      [] periodFlag = "1M"  -> Monthly
      [] OTHER              -> Daily

\* setOutput, given the logger as it is and whether os.OpenFile succeeds.
\* For a file the deferred f.Close() runs when setOutput returns, after
\* Log.SetOutput(f): the logger is left with a closed file.  When the open
\* fails f is a nil *os.File: Close on it returns an error without a panic
\* and the logger is left with the nil file.
setOutput(flags, l, opens) ==
    IF flags.log \in {"stdout", "stderr", "discard"}
    THEN [err |-> "nil", logger |-> [l EXCEPT !.dest = flags.log, !.handle = "open"]]
    ELSE IF opens
    THEN [err |-> "nil", logger |-> [l EXCEPT !.dest = flags.log, !.handle = "closed"]]
    ELSE [err |-> "open " \o flags.log \o ": permission denied",
          logger |-> [l EXCEPT !.dest = flags.log, !.handle = "nil"]]

---------------------------------------------------------------------------
(* The inputs the model draws from.                                        *)

Symbols == {"spy", "bt-c", "xBTCx", "Eth", "usd", "aUsDt"}

FewSymbols == {"aapl", "Eth"}

T(y, m, d) == [year |-> y, month |-> m, day |-> d, hour |-> 0, min |-> 0]

\* lines of a single-symbol CSV file, each with the values it denotes
CsvLines ==
    { [text |-> "2014-07-14 00:00,95.86,96.89,95.65,88.40,42810.00", six |-> TRUE,
       date |-> T(2014, 7, 14), open |-> 9586, high |-> 9689, low |-> 9565,
       close |-> 8840, volume |-> 4281000],
      [text |-> "2014-07-31 00:00,97.16,97.45,95.33,87.62,56843.00", six |-> TRUE,
       date |-> T(2014, 7, 31), open |-> 9716, high |-> 9745, low |-> 9533,
       close |-> 8762, volume |-> 5684300],
      [text |-> "2014-02-30,n/a,,-,1e,x", six |-> TRUE,
       date |-> ZeroTime, open |-> 0, high |-> 0, low |-> 0, close |-> 0, volume |-> 0],
      [text |-> "2014-07-15 00:00,96.80,96.85", six |-> FALSE,
       date |-> ZeroTime, open |-> 0, high |-> 0, low |-> 0, close |-> 0, volume |-> 0] }

CsvHeader == "datetime,open,high,low,close,volume"

\* lines of a multi-symbol CSV file
QuotesCsvLines ==
    { [text |-> "spy,2018-07-12 00:00,278.28,279.43,277.60,273.95,601247.00", seven |-> TRUE,
       symbol |-> "spy", date |-> T(2018, 7, 12), close |-> 27395],
      [text |-> "spy,2018-07-13 00:00,279.17,279.93,278.66,274.17,486874.00", seven |-> TRUE,
       symbol |-> "spy", date |-> T(2018, 7, 13), close |-> 27417],
      [text |-> "aapl,2018-07-12 00:00,189.53,191.41,189.31,187.99,180414.00", seven |-> TRUE,
       symbol |-> "aapl", date |-> T(2018, 7, 12), close |-> 18799],
      [text |-> "ibm,2018-07-12", seven |-> FALSE,
       symbol |-> "ibm", date |-> ZeroTime, close |-> 0] }

QuotesCsvHeader == "symbol,datetime,open,high,low,close,volume"

\* the sequences of at most n elements of S
SeqsUpTo(S, n) == UNION {[1..k -> S] : k \in 0..n}

\* a header and the given lines, a newline between lines
TextOf(header, lines, trailing) ==
    header \o Join([i \in 1..Len(lines) |-> "\n" \o lines[i].text]) \o
    (IF trailing THEN "\n" ELSE "")

\* decoded JSON documents for NewQuoteFromJSON
JsonDocs ==
    LET keys == {"symbol", "date", "open", "high", "low", "close", "volume"}
        base == [valid |-> TRUE, has |-> keys, symbol |-> "Eth",
                 date |-> <<T(2014, 7, 14)>>, open |-> <<9586>>, high |-> <<9689>>,
                 low |-> <<9565>>, close |-> <<8840>>, volume |-> <<4281000>>]
    IN  { base,
          [base EXCEPT !.valid = FALSE],
          [base EXCEPT !.has = {}],
          [base EXCEPT !.has = {"symbol", "close"}],
          [base EXCEPT !.has = keys \ {"volume"}],
          [base EXCEPT !.date = <<>>, !.open = <<>>, !.high = <<>>, !.low = <<>>,
                       !.close = <<>>, !.volume = <<>>],
          [base EXCEPT !.symbol = "spy", !.close = <<8840, 8762>>] }

YahooHeader == "Date,Open,High,Low,Close,Adj Close,Volume"

\* rows of a Yahoo download, each with the columns it denotes (hundredths)
YahooRows ==
    { [text |-> "2014-07-14,8,16,4,8,2,100",
       date |-> T(2014, 7, 14), o |-> 800, h |-> 1600, l |-> 400, c |-> 800, a |-> 200,
       v |-> 10000],
      [text |-> "2014-07-15,2,4,1,2,2,300",
       date |-> T(2014, 7, 15), o |-> 200, h |-> 400, l |-> 100, c |-> 200, a |-> 200,
       v |-> 30000] }

\* what the network answers a Yahoo download with
YahooResponses ==
    {[geterr |-> FALSE, body |-> TextOf(YahooHeader, rows, TRUE), rows |-> rows] :
        rows \in SeqsUpTo(YahooRows, MaxRows)}
    \cup
    { [geterr |-> TRUE, body |-> "", rows |-> <<>>],
      [geterr |-> FALSE, body |-> "", rows |-> <<>>],
      [geterr |-> FALSE, body |-> "Date,Close\n2014-07-14,8\n", rows |-> <<>>],
      [geterr |-> FALSE, body |-> "Date,Open,High\n2014-07-14,8\n", rows |-> <<>>] }

\* the answers drawn for a fetch of a batch: a failure, no bar, one bar
BatchResponses ==
    {r \in YahooResponses : r.geterr \/ (r.body # "" /\ r.rows # <<>> /\ Len(r.rows) = 1)}
    \cup {[geterr |-> FALSE, body |-> TextOf(YahooHeader, <<>>, TRUE), rows |-> <<>>]}

\* what the network answers a tiingo daily request with
TiingoRows ==
    { [Date |-> "2014-07-14T00:00:00.000Z", AdjOpen |-> 9586, AdjHigh |-> 9689,
       AdjLow |-> 9565, AdjClose |-> 8840, Volume |-> 4281000],
      [Date |-> "2014-07", AdjOpen |-> 1, AdjHigh |-> 1, AdjLow |-> 1, AdjClose |-> 1,
       Volume |-> 1] }

TiingoResponses ==
    {[neterr |-> FALSE, status |-> StatusOK, badjson |-> FALSE, rows |-> rows] :
        rows \in SeqsUpTo(TiingoRows, MaxRows)}
    \cup
    {[neterr |-> n, status |-> s, badjson |-> b, rows |-> <<>>] :
        n \in BOOLEAN, s \in {StatusOK, StatusNotFound, 500}, b \in BOOLEAN}


\* the values of the flags the command line program is run with
Sources == {"yahoo", "tiingo", "tiingo-crypto", "coinbase", "bittrex", "binance", "google"}

PeriodFlags == {"1m", "3m", "5m", "15m", "30m", "1h", "2h", "4h", "6h", "8h", "12h",
                "d", "1d", "3d", "w", "1w", "m", "1M", "x"}

Tokens == {"", "tok"}

LogDests == {"stdout", "stderr", "discard", "run.log"}

\* the symbols given on the command line
CliSymbols == {<<"aapl">>, <<"aapl", "Eth">>}

---------------------------------------------------------------------------
(* The state machine: a caller of the library.  From "idle" it calls one   *)
(* constructor; on the Quote or Quotes returned it calls one encoder.      *)

NoQuote == NewQuote("", 0)

Init ==
    /\ pc = "idle"
    /\ args = [fn |-> "none"]
    /\ q = NoQuote
    /\ qs = <<>>
    /\ err = "nil"
    /\ out = ""
    /\ enc = ""
    /\ panicked = FALSE
    /\ batch = NoBatch
    /\ logger = DiscardLogger

\* a constructor of one Quote returns quote and e, or panics, having logged
\* the messages msgs
ReturnQuote(a, quote, e, panic, msgs) ==
    /\ args' = a
    /\ q' = IF panic THEN NoQuote ELSE quote
    /\ err' = IF panic THEN "nil" ELSE e
    /\ panicked' = panic
    /\ pc' = IF panic THEN "panic" ELSE "quote"
    /\ logger' = LogPrintf(logger, msgs)
    /\ UNCHANGED <<qs, out, enc, batch>>

CallNewQuote ==
    \E symbol \in Symbols, bars \in 0..MaxBars :
        /\ pc = "idle"
        /\ ReturnQuote([fn |-> "NewQuote", symbol |-> symbol, bars |-> bars],
                       NewQuote(symbol, bars), "nil", FALSE, <<>>)

CallNewQuoteFromCSV ==
    \E symbol \in FewSymbols, rows \in SeqsUpTo(CsvLines, MaxRows), trailing \in BOOLEAN :
        LET csv == TextOf(CsvHeader, rows, trailing) IN
        /\ pc = "idle"
        /\ ReturnQuote([fn |-> "NewQuoteFromCSV", symbol |-> symbol, rows |-> rows,
                        trailing |-> trailing, csv |-> csv],
                       NewQuoteFromCSV(symbol, csv), "nil", FALSE, <<>>)

CallNewQuoteFromCSVDateFormat ==
    \E symbol \in FewSymbols, rows \in SeqsUpTo(CsvLines, MaxRows), trailing \in BOOLEAN,
       format \in {"", " ", LayoutDay} :
        LET csv == TextOf(CsvHeader, rows, trailing)
            r   == NewQuoteFromCSVDateFormat(symbol, csv, format)
        IN  /\ pc = "idle"
            /\ ReturnQuote([fn |-> "NewQuoteFromCSVDateFormat", symbol |-> symbol,
                            rows |-> rows, trailing |-> trailing, csv |-> csv,
                            format |-> format],
                           r.q, "nil", r.panic, <<>>)

CallNewQuoteFromJSON ==
    \E doc \in JsonDocs :
        LET r == NewQuoteFromJSON(doc) IN
        /\ pc = "idle"
        /\ ReturnQuote([fn |-> "NewQuoteFromJSON", symbol |-> doc.symbol, doc |-> doc],
                       r.q, r.err, FALSE, <<>>)

CallNewQuoteFromYahoo ==
    \E symbol \in FewSymbols, period \in Periods, adjustQuote \in BOOLEAN,
       resp \in YahooResponses :
        LET r == NewQuoteFromYahoo(symbol, period, adjustQuote, resp) IN
        /\ pc = "idle"
        /\ ReturnQuote([fn |-> "NewQuoteFromYahoo", symbol |-> symbol, period |-> period,
                        adjustQuote |-> adjustQuote, resp |-> resp,
                        requests |-> r.requests],
                       r.q, r.err, r.panic, r.logged)

CalltiingoDaily ==
    \E symbol \in FewSymbols, resp \in TiingoResponses :
        LET r == tiingoDaily(symbol, resp) IN
        /\ pc = "idle"
        /\ ReturnQuote([fn |-> "tiingoDaily", symbol |-> symbol, resp |-> resp],
                       r.q, r.err, r.panic, r.logged)

\* tiingoCrypto up to its request: the URL asked for ends up in out
CalltiingoCrypto ==
    \E symbol \in FewSymbols, period \in Periods \cup {"", "1d"} :
        /\ pc = "idle"
        /\ args' = [fn |-> "tiingoCrypto", symbol |-> symbol, period |-> period]
        /\ out' = tiingoCryptoURL(symbol, T(2014, 7, 1), T(2014, 12, 31), period)
        /\ pc' = "requested"
        /\ UNCHANGED <<q, qs, err, enc, panicked, batch, logger>>

CallNewQuotesFromCSV ==
    \E rows \in SeqsUpTo(QuotesCsvLines, MaxRows), trailing \in BOOLEAN :
        LET csv == TextOf(QuotesCsvHeader, rows, trailing) IN
        \E order \in Orders(IndexKeys(csv)) :
            LET r == NewQuotesFromCSV(csv, order) IN
            /\ pc = "idle"
            /\ args' = [fn |-> "NewQuotesFromCSV", rows |-> rows, trailing |-> trailing,
                        csv |-> csv, order |-> order]
            /\ qs' = r.quotes
            /\ panicked' = r.panic
            /\ pc' = IF r.panic THEN "panic" ELSE "quotes"
            /\ UNCHANGED <<q, err, out, enc, batch, logger>>

\* an encoder of one Quote returns its text, or panics
EncodeQuote(name, text) ==
    /\ enc' = name
    /\ IF CanIndex(q)
       THEN out' = text /\ pc' = "encoded" /\ UNCHANGED panicked
       ELSE panicked' = TRUE /\ pc' = "panic" /\ UNCHANGED out
    /\ UNCHANGED <<args, q, qs, err, batch, logger>>

CallQuoteCSV ==
    /\ pc = "quote"
    /\ EncodeQuote("Quote.CSV", QuoteCSV(q))

CallQuoteHighstock ==
    /\ pc = "quote"
    /\ EncodeQuote("Quote.Highstock", QuoteHighstock(q))

CallQuoteAmibroker ==
    /\ pc = "quote"
    /\ EncodeQuote("Quote.Amibroker", QuoteAmibroker(q))

\* an encoder of a Quotes returns its text, or panics
EncodeQuotes(name, text) ==
    /\ enc' = name
    /\ IF \A sym \in 1..Len(qs) : CanIndex(qs[sym])
       THEN out' = text /\ pc' = "encoded" /\ UNCHANGED panicked
       ELSE panicked' = TRUE /\ pc' = "panic" /\ UNCHANGED out
    /\ UNCHANGED <<args, q, qs, err, batch, logger>>

\* the keys of q whose slice is nil: NewQuoteFromJSON starts from Quote{}
\* and json.Unmarshal makes a slice only for a key that is present
NilFields ==
    LET slices == {"date", "open", "high", "low", "close", "volume"} IN
    IF args.fn # "NewQuoteFromJSON" THEN {}
    ELSE IF ~args.doc.valid THEN slices
    ELSE slices \ args.doc.has

\* Quote.JSON reads the record through the encoding/json package: no
\* indexing of one sequence by the length of another, so no panic
CallQuoteJSON ==
    \E indent \in BOOLEAN :
        /\ pc = "quote"
        /\ enc' = "Quote.JSON"
        /\ out' = QuoteJSON(q, NilFields, indent)
        /\ pc' = "encoded"
        /\ UNCHANGED <<args, q, qs, err, panicked, batch, logger>>

CallQuotesJSON ==
    \E indent \in BOOLEAN :
        /\ pc = "quotes"
        /\ enc' = "Quotes.JSON"
        /\ out' = QuotesJSON(qs, indent)
        /\ pc' = "encoded"
        /\ UNCHANGED <<args, q, qs, err, panicked, batch, logger>>

CallQuotesCSV ==
    /\ pc = "quotes"
    /\ EncodeQuotes("Quotes.CSV", QuotesCSV(qs))

CallQuotesHighstock ==
    /\ pc = "quotes"
    /\ EncodeQuotes("Quotes.Highstock", QuotesHighstock(qs))

CallQuotesAmibroker ==
    /\ pc = "quotes"
    /\ EncodeQuotes("Quotes.Amibroker", QuotesAmibroker(qs))

---------------------------------------------------------------------------
(* The batch drivers, one step at a time.  batch.log records the start and *)
(* the return of every fetch and the end of every sleep; batch.results     *)
(* what every fetch returned.                                              *)

StartBatch(fn, symbols, period, adjust) ==
    /\ args' = [fn |-> fn, symbols |-> symbols, period |-> period, adjustQuote |-> adjust]
    /\ batch' = [NoBatch EXCEPT !.symbols = symbols, !.period = period,
                                !.adjust = adjust, !.i = 1]
    /\ qs' = <<>>
    /\ pc' = "loop"
    /\ UNCHANGED <<q, err, out, enc, panicked, logger>>

CallNewQuotesFromYahooSyms ==
    \E symbols \in SeqsUpTo(FewSymbols, MaxSyms), period \in {Daily, Min5},
       adjust \in BOOLEAN :
        /\ pc = "idle"
        /\ StartBatch("NewQuotesFromYahooSyms", symbols, period, adjust)

\* the file opens and holds the symbols, one a line
CallNewQuotesFromYahoo ==
    \E symbols \in SeqsUpTo(FewSymbols, MaxSyms), trailing \in BOOLEAN :
        LET text == Join([i \in 1..Len(symbols) |->
                            symbols[i] \o (IF i < Len(symbols) \/ trailing THEN "\n" ELSE "")])
        IN  /\ pc = "idle"
            /\ StartBatch("NewQuotesFromYahoo", ScanLines(text), Daily, TRUE)

\* os.Open fails: the driver returns no quotes and the error
OpenFails ==
    /\ pc = "idle"
    /\ args' = [fn |-> "NewQuotesFromYahoo", symbols |-> <<>>, period |-> Daily,
                adjustQuote |-> TRUE]
    /\ qs' = <<>>
    /\ err' = "open: no such file"
    /\ pc' = "failed"
    /\ UNCHANGED <<q, out, enc, panicked, batch, logger>>

\* the loop calls NewQuoteFromYahoo for the next symbol
BeginFetch ==
    /\ pc = "loop"
    /\ batch.i <= Len(batch.symbols)
    /\ batch' = [batch EXCEPT !.inflight = @ + 1,
                              !.log = Append(@, <<"start", batch.i>>)]
    /\ pc' = "fetch"
    /\ UNCHANGED <<args, q, qs, err, out, enc, panicked, logger>>

\* NewQuoteFromYahoo returns.  On every path it has called NewQuote once,
\* which makes six new slices: batch.made counts these calls and block is
\* the number of the call that made the slices of the Quote returned.
EndFetch ==
    \E resp \in BatchResponses :
        LET symbol == batch.symbols[batch.i]
            r      == NewQuoteFromYahoo(symbol, batch.period, batch.adjust, resp)
        IN  /\ pc = "fetch"
            /\ batch' = [batch EXCEPT
                            !.inflight = @ - 1,
                            !.made = @ + 1,
                            !.log = Append(@, <<"return", batch.i>>),
                            !.results = Append(@, [symbol |-> symbol, err |-> r.err,
                                                   q |-> r.q,
                                                   requests |-> r.requests,
                                                   block |-> batch.made + 1])]
            /\ qs' = KeepQuote(qs, r.q, r.err)
            /\ pc' = AfterFetch
            /\ logger' = LogPrintf(logger, r.logged)
            /\ UNCHANGED <<args, q, err, out, enc, panicked>>

\* time.Sleep(Delay * time.Millisecond) returns
EndSleep ==
    /\ pc = "sleep"
    /\ batch' = [batch EXCEPT !.i = @ + 1, !.log = Append(@, <<"slept", batch.i>>)]
    /\ pc' = "loop"
    /\ UNCHANGED <<args, q, qs, err, out, enc, panicked, logger>>

\* the loop is over: return quotes, nil
ReturnBatch ==
    /\ pc = "loop"
    /\ batch.i > Len(batch.symbols)
    /\ err' = "nil"
    /\ pc' = "quotes"
    /\ UNCHANGED <<args, q, qs, out, enc, panicked, batch, logger>>

---------------------------------------------------------------------------
(* Reading back what was written: the text Quote.CSV returned is handed to *)
(* NewQuoteFromCSV with the quote's symbol, the text Quotes.CSV returned   *)
(* to NewQuotesFromCSV.  args.original keeps the record that was encoded.  *)

CallNewQuoteFromCSVOfCSV ==
    /\ pc = "encoded"
    /\ enc = "Quote.CSV"
    /\ args' = [fn |-> "NewQuoteFromCSV(q.CSV())", symbol |-> q.Symbol, csv |-> out,
                original |-> q]
    /\ q' = NewQuoteFromCSV(q.Symbol, out)
    /\ err' = "nil"
    /\ pc' = "reparsed"
    /\ UNCHANGED <<qs, out, enc, panicked, batch, logger>>

CallNewQuotesFromCSVOfCSV ==
    /\ pc = "encoded"
    /\ enc = "Quotes.CSV"
    /\ \E order \in Orders(IndexKeys(out)) :
        LET r == NewQuotesFromCSV(out, order) IN
        /\ args' = [fn |-> "NewQuotesFromCSV(qs.CSV())", csv |-> out, order |-> order,
                    original |-> qs]
        /\ qs' = r.quotes
        /\ err' = "nil"
        /\ panicked' = r.panic
        /\ pc' = IF r.panic THEN "panic" ELSE "reparsed"
        /\ UNCHANGED <<q, out, enc, batch, logger>>

---------------------------------------------------------------------------
(* A run of the command line program: checkFlags, then setOutput, then     *)
(* outputAll, each going on only when the one before returned no error     *)
(* (check() prints the error and exits).                                   *)

CallcheckFlags ==
    \E source \in Sources, period \in PeriodFlags, token \in Tokens, log \in LogDests,
       adjust \in BOOLEAN :
        LET flags == [source |-> source, period |-> period, token |-> token,
                      log |-> log, adjust |-> adjust]
        IN  /\ pc = "idle"
            /\ args' = [fn |-> "checkFlags", flags |-> flags]
            /\ err' = checkFlags(flags)
            /\ pc' = "checked"
            /\ UNCHANGED <<q, qs, out, enc, panicked, batch, logger>>

CallsetOutput ==
    \E opens \in BOOLEAN :
        LET r == setOutput(args.flags, logger, opens) IN
        /\ pc = "checked"
        /\ err = "nil"
        /\ opens \/ args.flags.log \notin {"stdout", "stderr", "discard"}
        /\ args' = [fn |-> "setOutput", flags |-> args.flags, opens |-> opens]
        /\ err' = r.err
        /\ logger' = r.logger
        /\ pc' = "ready"
        /\ UNCHANGED <<q, qs, out, enc, panicked, batch>>

\* outputAll for the source yahoo: NewQuotesFromYahooSyms with the period
\* getPeriod gives and the adjust flag
CalloutputAll ==
    \E symbols \in CliSymbols :
        LET period == getPeriod(args.flags.period) IN
        /\ pc = "ready"
        /\ err = "nil"
        /\ args.flags.source = "yahoo"
        /\ args' = [fn |-> "outputAll", flags |-> args.flags, symbols |-> symbols,
                    period |-> period, adjustQuote |-> args.flags.adjust]
        /\ batch' = [NoBatch EXCEPT !.symbols = symbols, !.period = period,
                                    !.adjust = args.flags.adjust, !.i = 1]
        /\ qs' = <<>>
        /\ pc' = "loop"
        /\ UNCHANGED <<q, err, out, enc, panicked, logger>>

Next ==
    \/ CallNewQuote
    \/ CallNewQuoteFromCSV
    \/ CallNewQuoteFromCSVDateFormat
    \/ CallNewQuoteFromJSON
    \/ CallNewQuoteFromYahoo
    \/ CalltiingoDaily
    \/ CalltiingoCrypto
    \/ CallNewQuotesFromCSV
    \/ CallQuoteCSV
    \/ CallQuoteHighstock
    \/ CallQuoteAmibroker
    \/ CallQuotesCSV
    \/ CallQuotesHighstock
    \/ CallQuotesAmibroker
    \/ CallQuoteJSON
    \/ CallQuotesJSON
    \/ CallNewQuotesFromYahooSyms
    \/ CallNewQuotesFromYahoo
    \/ OpenFails
    \/ BeginFetch
    \/ EndFetch
    \/ EndSleep
    \/ ReturnBatch
    \/ CallcheckFlags
    \/ CallsetOutput
    \/ CalloutputAll
    \/ CallNewQuoteFromCSVOfCSV
    \/ CallNewQuotesFromCSVOfCSV

Spec == Init /\ [][Next]_vars


---------------------------------------------------------------------------
(* Notions the properties below are stated with.  They are written from    *)
(* the texts and the inputs, not from the operators above.                 *)

\* the six sequences of a quote are of one length
Aligned(quote) ==
    /\ Len(quote.Date) = Len(quote.Close)
    /\ Len(quote.Open) = Len(quote.Close)
    /\ Len(quote.High) = Len(quote.Close)
    /\ Len(quote.Low) = Len(quote.Close)
    /\ Len(quote.Volume) = Len(quote.Close)

\* the symbols of the model that hold BTC, ETH or USD in some letter case
WideSymbols == {"xBTCx", "Eth", "usd", "aUsDt"}

ExpectedDecimals(symbol) == IF symbol \in WideSymbols THEN 8 ELSE 2

\* the digits that follow the decimal point of a printed number
RECURSIVE LeadingDigits(_)
LeadingDigits(s) ==
    IF s = "" \/ Char(s, 1) \notin Digits THEN 0
    ELSE 1 + LeadingDigits(SubSeq(s, 2, Len(s)))

Decimals(field) == LeadingDigits(SubSeq(field, IndexOf(field, ".") + 1, Len(field)))

\* the comma-separated fields of a line that are printed floats
FloatFields(line) == SelectSeq(Split(line, ","), LAMBDA f : IndexOf(f, ".") > 0)

\* the lines of a text that hold a bar
BarLines(lines) == {i \in 1..Len(lines) : IndexOf(lines[i], ".") > 0}

RECURSIVE TotalBars(_)
TotalBars(quotes) ==
    IF Len(quotes) = 0 THEN 0 ELSE Len(Head(quotes).Close) + TotalBars(Tail(quotes))

\* the symbol a bar line of an encoded Quotes belongs to: its first field
\* in the CSV layouts, the name of the last "symbol":[ opened before it in
\* the Highstock layout
SymbolOfLine(lines, i) ==
    IF enc = "Quotes.Highstock"
    THEN LET opens == {j \in 1..i : Contains(lines[j], "\":[")}
             j     == CHOOSE k \in opens : \A l \in opens : l <= k
         IN  IF opens = {} THEN "" ELSE Split(lines[j], "\"")[2]
    ELSE Split(lines[i], ",")[1]

\* the occurrences of the character c among the first n characters of s
Count(s, n, c) == Cardinality({i \in 1..n : Char(s, i) = c})

\* every closing bracket of s closes a bracket opened before it, and none
\* stays open
Balanced(s) ==
    /\ \A n \in 1..Len(s) : Count(s, n, "]") <= Count(s, n, "[")
    /\ Count(s, Len(s), "]") = Count(s, Len(s), "[")

QuoteEncoders == {"Quote.CSV", "Quote.Highstock", "Quote.Amibroker"}
QuotesEncoders == {"Quotes.CSV", "Quotes.Highstock", "Quotes.Amibroker"}

---------------------------------------------------------------------------
(* C1.  Every Quote a constructor or parser returns has its six sequences  *)
(* of one length, so that no encoder called on it indexes out of range.    *)
(* NewQuoteFromJSON returns whatever lengths the JSON text holds.          *)
C1_SequencesAligned ==
    /\ pc \in {"quote", "encoded"} /\ enc \notin QuotesEncoders => Aligned(q)
    /\ pc = "quotes" => \A sym \in 1..Len(qs) : Aligned(qs[sym])
    /\ ~(pc = "panic" /\ enc # "" /\ args.fn # "NewQuotesFromCSV(qs.CSV())")

---------------------------------------------------------------------------
(* C2.  The batch drivers fetch strictly one after the other, in input     *)
(* order: the events of a batch are start 1, return 1, slept 1, start 2,   *)
(* return 2, slept 2, ..., so no fetch starts before the one before it has *)
(* returned and its sleep has ended, and at most one fetch is in flight.   *)
C2_SequentialFetches ==
    LET kind(k) == IF k % 3 = 1 THEN "start" ELSE IF k % 3 = 2 THEN "return" ELSE "slept"
        log     == batch.log
    IN  /\ \A k \in 1..Len(log) : log[k] = <<kind(k), ((k - 1) \div 3) + 1>>
        /\ batch.inflight \in {0, 1}
        /\ batch.inflight = 1 <=> (Len(log) > 0 /\ log[Len(log)][1] = "start")
        /\ \A i \in 1..Len(batch.results) : batch.results[i].symbol = batch.symbols[i]

\* the second fetch of a batch is in flight
C2_Witness == pc = "fetch" /\ batch.i = 2 /\ batch.inflight = 1 /\ Len(batch.log) = 4

---------------------------------------------------------------------------
\* the quotes of the fetches that returned no error, in order
RECURSIVE Succeeded(_)
Succeeded(results) ==
    IF Len(results) = 0 THEN <<>>
    ELSE (IF Head(results).err = "nil" THEN <<Head(results).q>> ELSE <<>>)
         \o Succeeded(Tail(results))

(* C3.  NewQuotesFromYahooSyms fetches every input symbol exactly once, in *)
(* input order, whether or not a fetch fails; it returns the quotes of the *)
(* fetches that succeeded, in input order, and a nil error.                *)
C3_OncePerSymbol ==
    args.fn = "NewQuotesFromYahooSyms" /\ pc = "quotes" =>
        /\ Len(batch.results) = Len(args.symbols)
        /\ \A i \in 1..Len(args.symbols) :
              /\ batch.results[i].symbol = args.symbols[i]
              /\ Cardinality({k \in 1..Len(batch.log) : batch.log[k] = <<"start", i>>}) = 1
        /\ qs = Succeeded(batch.results)
        /\ err = "nil"

\* a batch returned in which the first fetch failed and the second did not
C3_Witness ==
    /\ args.fn = "NewQuotesFromYahooSyms" /\ pc = "quotes"
    /\ Len(batch.results) = 2
    /\ batch.results[1].err # "nil" /\ batch.results[2].err = "nil"
    /\ Len(qs) = 1 /\ qs[1].Symbol = args.symbols[2]

---------------------------------------------------------------------------
\* NewQuoteFromCSV returned for a header and rows of six fields, no newline
\* at the end
C4_Applies ==
    /\ args.fn = "NewQuoteFromCSV" /\ pc = "quote"
    /\ ~args.trailing
    /\ \A i \in 1..Len(args.rows) : args.rows[i].six

(* C4.  For a header line followed by N rows of six fields and no trailing *)
(* newline, NewQuoteFromCSV returns the given symbol and exactly N bars,   *)
(* bar i holding the values of row i.                                      *)
C4_RowsInFileOrder ==
    C4_Applies =>
        /\ q.Symbol = args.symbol
        /\ Aligned(q)
        /\ Len(q.Close) = Len(args.rows)
        /\ \A i \in 1..Len(args.rows) :
              /\ q.Date[i] = args.rows[i].date
              /\ q.Open[i] = args.rows[i].open
              /\ q.High[i] = args.rows[i].high
              /\ q.Low[i] = args.rows[i].low
              /\ q.Close[i] = args.rows[i].close
              /\ q.Volume[i] = args.rows[i].volume

\* two rows were parsed, the last one closing at 87.62
C4_Witness ==
    C4_Applies /\ Len(args.rows) = 2 /\ args.rows[1].close = 8840
               /\ args.rows[2].close = 8762 /\ q.Close[Len(q.Close)] = 8762

---------------------------------------------------------------------------
\* the rows of a multi-symbol file whose first field is symbol, in file order
RowsOf(rows, symbol) == SelectSeq(rows, LAMBDA r : r.symbol = symbol)

(* C5.  NewQuotesFromCSV returns one Quote for each distinct symbol, and   *)
(* the Quote of symbol s holds the rows whose first field is s, in file    *)
(* order, whatever the order in which the map of counts is visited.  The   *)
(* code hands out the rows by a running counter instead.                   *)
C5_GroupedBySymbol ==
    args.fn = "NewQuotesFromCSV" /\ pc = "quotes" =>
        /\ Len(qs) = Cardinality({args.rows[i].symbol : i \in 1..Len(args.rows)})
        /\ \A k \in 1..Len(qs) :
              LET mine == RowsOf(args.rows, qs[k].Symbol) IN
              /\ \A l \in 1..Len(qs) : qs[l].Symbol = qs[k].Symbol => l = k
              /\ Len(qs[k].Close) = Len(mine)
              /\ \A i \in 1..Len(mine) :
                    qs[k].Date[i] = mine[i].date /\ qs[k].Close[i] = mine[i].close

---------------------------------------------------------------------------
(* C6.  Every encoder prints the open, high, low, close and volume of      *)
(* every bar with 8 decimals when the quote's symbol holds BTC, ETH or USD *)
(* in any letter case and with 2 otherwise; in a Quotes every quote is     *)
(* printed with the decimals of its own symbol.                            *)
C6_PrecisionBySymbol ==
    pc = "encoded" /\ enc \in QuoteEncoders \cup QuotesEncoders =>
        LET lines == Split(out, "\n") IN
        /\ Cardinality(BarLines(lines)) =
              IF enc \in QuoteEncoders THEN Len(q.Close) ELSE TotalBars(qs)
        /\ \A i \in BarLines(lines) :
              LET symbol == IF enc \in QuoteEncoders THEN q.Symbol
                            ELSE SymbolOfLine(lines, i)
                  floats == FloatFields(lines[i])
              IN  /\ Len(floats) = 5
                  /\ \A f \in 1..5 : Decimals(floats[f]) = ExpectedDecimals(symbol)

\* a Quotes was encoded that holds a bar to print with 8 decimals and a bar
\* to print with 2
C6_Witness ==
    /\ pc = "encoded" /\ enc \in QuotesEncoders
    /\ \E i, j \in 1..Len(qs) :
          /\ qs[i].Symbol = "Eth" /\ Len(qs[i].Close) > 0
          /\ qs[j].Symbol = "aapl" /\ Len(qs[j].Close) > 0

---------------------------------------------------------------------------
(* C7.  The Precision field of a Quote built for symbol s holds the        *)
(* precision derived from s.  No constructor ever sets the field.          *)
C7_PrecisionField ==
    /\ pc = "quote"
    /\ args.fn \in {"NewQuote", "NewQuoteFromCSV", "NewQuoteFromJSON",
                    "NewQuoteFromYahoo", "tiingoDaily"}
    /\ err = "nil"
    => q.Precision = ExpectedDecimals(q.Symbol)

---------------------------------------------------------------------------
(* C8.  NewQuoteFromYahoo with adjustQuote puts open, high, low and close  *)
(* of a row on the adjusted scale (the raw column times adjclose/close, so *)
(* close is the adjusted close), and without it leaves the raw columns;    *)
(* date and volume are copied in both modes.                               *)
C8_ConsistentAdjustment ==
    args.fn = "NewQuoteFromYahoo" /\ pc = "quote" /\ err = "nil" =>
        /\ Len(q.Close) = Len(args.resp.rows)
        /\ \A i \in 1..Len(args.resp.rows) :
              LET r == args.resp.rows[i] IN
              /\ q.Date[i] = r.date
              /\ q.Volume[i] = r.v
              /\ IF args.adjustQuote
                 THEN /\ q.Open[i] * r.c = r.o * r.a
                      /\ q.High[i] * r.c = r.h * r.a
                      /\ q.Low[i] * r.c = r.l * r.a
                      /\ q.Close[i] = r.a
                 ELSE /\ q.Open[i] = r.o
                      /\ q.High[i] = r.h
                      /\ q.Low[i] = r.l
                      /\ q.Close[i] = r.c

---------------------------------------------------------------------------
\* the frequency of each period tiingoCrypto knows
FreqOfPeriod ==
    { <<Min1, "1min">>, <<Min3, "3min">>, <<Min5, "5min">>, <<Min15, "15min">>,
      <<Min30, "30min">>, <<Min60, "1hour">>, <<Hour2, "2hour">>, <<Hour4, "4hour">>,
      <<Hour6, "6hour">>, <<Hour8, "8hour">>, <<Hour12, "12hour">>, <<Daily, "1day">> }

\* the value of the last parameter of a URL
LastParameter(url) == LET parts == Split(url, "=") IN parts[Len(parts)]

(* C9.  tiingoCrypto asks for the resampling frequency of the period's     *)
(* duration, a different one for each of the twelve periods it knows, and  *)
(* for 1day for every other period.                                        *)
C9_ResampleFreq ==
    pc = "requested" =>
        LET known == {pf[1] : pf \in FreqOfPeriod} IN
        /\ Cardinality(known) = 12
        /\ Cardinality({resampleFreq(p) : p \in known}) = 12
        /\ args.period \in known => <<args.period, LastParameter(out)>> \in FreqOfPeriod
        /\ args.period \notin known => LastParameter(out) = "1day"
        /\ err = "nil"

\* a 12 hour period was requested
C9_Witness ==
    pc = "requested" /\ args.period = Hour12 /\ LastParameter(out) = "12hour"

---------------------------------------------------------------------------
(* C10.  Quote.Highstock prints "[", one row a bar with a comma after      *)
(* every row but the last, and "]".  Quotes.Highstock prints, for every    *)
(* quote of the collection, one opening "symbol":[ and one closing         *)
(* bracket, with a comma between quotes, inside one pair of braces.  For a *)
(* quote without bars the code prints the closing bracket alone.           *)
C10_HighstockWellFormed ==
    LET lines == Split(out, "\n")
        rows  == {i \in 1..Len(lines) : Len(lines[i]) > 2 /\ Char(lines[i], 1) = "["}
        opens == {i \in 1..Len(lines) : Contains(lines[i], "\":[")}
        shuts == {i \in 1..Len(lines) : lines[i] \in {"]", "],"}}
    IN  /\ pc = "encoded" /\ enc = "Quote.Highstock" =>
              /\ Len(lines) = Len(q.Close) + 3
              /\ lines[1] = "[" /\ lines[Len(lines) - 1] = "]" /\ lines[Len(lines)] = ""
              /\ rows = 2..(Len(q.Close) + 1)
              /\ \A i \in rows :
                    LET n == Len(lines[i]) IN
                    IF i = Len(q.Close) + 1
                    THEN Char(lines[i], n) = "]"
                    ELSE SubSeq(lines[i], n - 1, n) = "],"
              /\ Balanced(out)
        /\ pc = "encoded" /\ enc = "Quotes.Highstock" =>
              /\ Char(out, 1) = "{" /\ Char(out, Len(out)) = "}"
              /\ Cardinality(opens) = Len(qs)
              /\ Cardinality(shuts) = Len(qs)
              /\ Cardinality({i \in shuts : lines[i] = "],"}) =
                    IF Len(qs) = 0 THEN 0 ELSE Len(qs) - 1
              /\ Len(qs) > 0 => lines[Len(lines) - 1] = "]"
              /\ Balanced(out)

---------------------------------------------------------------------------
---------------------------------------------------------------------------
(* C12.  A record is not changed after construction.  A step in which an   *)
(* encoder runs (CSV, Highstock, Amibroker or JSON, of a Quote or of a     *)
(* Quotes) leaves q and qs as they were.  A step of a batch leaves every   *)
(* quote collected so far, and every quote an earlier fetch returned, as   *)
(* it was, and the slices of the quotes the fetches returned come from     *)
(* pairwise different NewQuote calls.                                      *)
C12_NoMutationAfterConstruction ==
    [][ /\ enc' # enc => q' = q /\ qs' = qs
        /\ pc \in {"loop", "fetch", "sleep"} =>
              /\ Len(qs') >= Len(qs)
              /\ \A i \in 1..Len(qs) : qs'[i] = qs[i]
              /\ Len(batch'.results) >= Len(batch.results)
              /\ \A i \in 1..Len(batch.results) : batch'.results[i] = batch.results[i]
              /\ \A i, j \in 1..Len(batch'.results) :
                    i # j => batch'.results[i].block # batch'.results[j].block
      ]_vars

\* a batch returned two quotes that differ, and they were encoded as JSON
C12_Witness ==
    /\ pc = "encoded" /\ enc = "Quotes.JSON"
    /\ args.fn = "NewQuotesFromYahooSyms"
    /\ Len(qs) = 2 /\ qs[1] # qs[2]
    /\ qs[1] = batch.results[1].q /\ qs[2] = batch.results[2].q

---------------------------------------------------------------------------
(* C13.  Every pair (yahoo, period flag) that checkFlags accepts is mapped *)
(* by getPeriod to Daily, the one Period NewQuoteFromYahoo accepts, so no  *)
(* fetch of a run that passed checkFlags is turned away for its period.    *)
(* checkFlags turns away the flags 1m, 5m, 15m, 30m and 1h only.           *)
C13_YahooFlagsAreDaily ==
    /\ args.fn = "checkFlags" /\ args.flags.source = "yahoo" /\ err = "nil" =>
          getPeriod(args.flags.period) = Daily
    /\ args.fn = "outputAll" /\ args.flags.source = "yahoo" =>
          /\ args.period = Daily
          /\ \A i \in 1..Len(batch.results) :
                batch.results[i].err # "Yahoo intraday data no longer supported"

---------------------------------------------------------------------------
\* the period flags that the messages for tiingo-crypto and binance list
ListedPeriods ==
    {"1m", "3m", "5m", "15m", "30m", "1h", "2h", "4h", "6h", "8h", "12h",
     "1d", "3d", "1w", "1M"}

(* C14.  For the sources tiingo-crypto and binance checkFlags accepts a    *)
(* period flag exactly when the flag is one of those its error message     *)
(* lists, and for tiingo-crypto an empty token is an error.  The code      *)
(* accepts d (and for binance w and m) and turns away 1d, 1w and 1M (and   *)
(* for tiingo-crypto 3d).                                                  *)
C14_AcceptsWhatItLists ==
    args.fn = "checkFlags" /\ pc = "checked" =>
        /\ args.flags.source = "binance" =>
              (err = "nil" <=> args.flags.period \in ListedPeriods)
        /\ args.flags.source = "tiingo-crypto" =>
              /\ Contains(err, "invalid") <=> args.flags.period \notin ListedPeriods
              /\ args.flags.token = "" => err # "nil"

---------------------------------------------------------------------------
(* C15.  After setOutput returned nil for a -log destination that names a  *)
(* file, the logger's output is an open handle on the file and every       *)
(* message logged afterwards in the run reaches it; when the file cannot   *)
(* be opened setOutput returns the error of the open and does not panic.   *)
(* The code closes the file as setOutput returns.                          *)
C15_LogFileStaysOpen ==
    /\ /\ args.fn \in {"setOutput", "outputAll"}
       /\ args.flags.log \notin {"stdout", "stderr", "discard"}
       /\ err = "nil"
       => /\ logger.dest = args.flags.log
          /\ logger.handle = "open"
          /\ logger.written = logger.logged
    /\ /\ args.fn = "setOutput"
       /\ args.flags.log \notin {"stdout", "stderr", "discard"}
       /\ ~args.opens
       => /\ Contains(err, "open " \o args.flags.log)
          /\ ~panicked /\ pc = "ready"

---------------------------------------------------------------------------
(* C16.  tiingoDaily returns a non-nil error whenever the request fails,   *)
(* the status is not 200 OK, or the body of a 200 answer fails to decode;  *)
(* it returns a nil error only with a Quote that carries the requested     *)
(* symbol and one bar for each element of the decoded answer.  The code    *)
(* returns a nil error for every status other than 200.                    *)
C16_TiingoFailuresAreErrors ==
    args.fn = "tiingoDaily" /\ pc = "quote" =>
        LET failed == \/ args.resp.neterr
                      \/ args.resp.status # StatusOK
                      \/ args.resp.badjson
        IN  /\ failed => err # "nil"
            /\ err = "nil" =>
                  /\ q.Symbol = args.symbol
                  /\ Aligned(q)
                  /\ Len(q.Close) = Len(args.resp.rows)

---------------------------------------------------------------------------
\* bar i of quote a and bar i of quote b hold the same six values
SameBar(a, b, i) ==
    /\ a.Date[i] = b.Date[i]
    /\ a.Open[i] = b.Open[i]
    /\ a.High[i] = b.High[i]
    /\ a.Low[i] = b.Low[i]
    /\ a.Close[i] = b.Close[i]
    /\ a.Volume[i] = b.Volume[i]

(* C17.  For a Quote q with aligned sequences NewQuoteFromCSV(q.Symbol,    *)
(* q.CSV()) has the symbol of q and as many bars as q, bar i holding what  *)
(* bar i of q holds.  Quote.CSV ends every row with a newline and          *)
(* NewQuoteFromCSV allocates a bar for the empty text after the last one.  *)
C17_QuoteCSVRoundTrip ==
    args.fn = "NewQuoteFromCSV(q.CSV())" /\ Aligned(args.original) =>
        /\ q.Symbol = args.original.Symbol
        /\ Aligned(q)
        /\ Len(q.Close) = Len(args.original.Close)
        /\ \A i \in 1..Len(args.original.Close) : SameBar(q, args.original, i)

---------------------------------------------------------------------------
(* C18.  For a Quotes qs with pairwise distinct non-empty symbols          *)
(* NewQuotesFromCSV(qs.CSV()) does not panic and returns Len(qs) quotes,   *)
(* one for each symbol of qs with as many bars as that symbol has in qs.   *)
(* Quotes.CSV ends every row with a newline; NewQuotesFromCSV counts the   *)
(* empty text after the last one as a row and indexes its fields.          *)
C18_QuotesCSVRoundTrip ==
    LET original == args.original IN
    /\ args.fn = "NewQuotesFromCSV(qs.CSV())"
    /\ \A i, j \in 1..Len(original) : original[i].Symbol = original[j].Symbol => i = j
    /\ \A i \in 1..Len(original) : original[i].Symbol # "" /\ Aligned(original[i])
    => /\ ~panicked /\ pc = "reparsed"
       /\ Len(qs) = Len(original)
       /\ \A i \in 1..Len(original) :
             \E k \in 1..Len(qs) :
                /\ qs[k].Symbol = original[i].Symbol
                /\ Len(qs[k].Close) = Len(original[i].Close)

=============================================================================
